---- MODULE Spec2Model ----
(***************************************************************************)
(* Model of owm-rs (src/lib.rs): the serde data model of OpenWeatherMap's  *)
(* "One Call" API.  The crate is a set of pure decoders, encoders and      *)
(* formatters; the state machine applies one of them per step to an input  *)
(* drawn from a bounded set and records the input and what came out.       *)
(*                                                                         *)
(* 64-bit integers do not fit the model checker's integers, so an integer  *)
(* is a sign and a magnitude of three base-10^9 limbs (most significant    *)
(* first); every 64-bit constant keeps its exact value.                    *)
(***************************************************************************)
EXTENDS Integers, Sequences, FiniteSets, TLC

VARIABLES op, input, output, source

vars == <<op, input, output, source>>

(***************************************************************************)
(* Bounds of the explored inputs.                                          *)
(***************************************************************************)
\* integers are tried up to this distance on either side of each boundary
Spread == 2
\* longest array of records in a decoded document
MaxVecLen == 1

(***************************************************************************)
(* Results.                                                                *)
(***************************************************************************)
Ok(v) == [ok |-> TRUE, val |-> v]

Err(e) == [ok |-> FALSE, err |-> e]

None == [some |-> FALSE]

Some(v) == [some |-> TRUE, val |-> v]

(***************************************************************************)
(* Wide integers: [neg, m] with m = <<hi, mid, lo>>, value                 *)
(* (hi * 10^18 + mid * 10^9 + lo), zero never negative.                    *)
(***************************************************************************)
Limb == 10^9

W(neg, a, b, c) == [neg |-> neg, m |-> <<a, b, c>>]

WNat(n) == W(FALSE, 0, n \div Limb, n % Limb)

WZero == W(FALSE, 0, 0, 0)

MagLt(x, y) ==
    \/ x[1] < y[1]
    \/ x[1] = y[1] /\ x[2] < y[2]
    \/ x[1] = y[1] /\ x[2] = y[2] /\ x[3] < y[3]

WLt(x, y) ==
    IF x.neg # y.neg THEN x.neg
    ELSE IF x.neg THEN MagLt(y.m, x.m)
    ELSE MagLt(x.m, y.m)

WLe(x, y) == x = y \/ WLt(x, y)

\* x - y on magnitudes, for x >= y
MagSub(x, y) ==
    LET b3 == IF x[3] < y[3] THEN 1 ELSE 0
        l3 == x[3] - y[3] + b3 * Limb
        b2 == IF x[2] - b3 < y[2] THEN 1 ELSE 0
        l2 == x[2] - b3 - y[2] + b2 * Limb
        l1 == x[1] - b2 - y[1]
    IN  <<l1, l2, l3>>

MagInc(x) ==
    IF x[3] + 1 < Limb THEN <<x[1], x[2], x[3] + 1>>
    ELSE IF x[2] + 1 < Limb THEN <<x[1], x[2] + 1, 0>>
    ELSE <<x[1] + 1, 0, 0>>

MagDec(x) == MagSub(x, <<0, 0, 1>>)

WSucc(x) ==
    IF ~x.neg THEN [neg |-> FALSE, m |-> MagInc(x.m)]
    ELSE LET d == MagDec(x.m) IN [neg |-> d # <<0, 0, 0>>, m |-> d]

WPred(x) ==
    IF x.neg THEN [neg |-> TRUE, m |-> MagInc(x.m)]
    ELSE IF x.m = <<0, 0, 0>> THEN W(TRUE, 0, 0, 1)
    ELSE [neg |-> FALSE, m |-> MagDec(x.m)]

RECURSIVE WAdd(_, _)
\* x + k for a small integer k
WAdd(x, k) ==
    IF k = 0 THEN x
    ELSE IF k > 0 THEN WAdd(WSucc(x), k - 1)
    ELSE WAdd(WPred(x), k + 1)

Digit == <<"0", "1", "2", "3", "4", "5", "6", "7", "8", "9">>

RECURSIVE DecNat(_)
\* decimal digits of a natural number, no padding
DecNat(n) == IF n < 10 THEN Digit[n + 1] ELSE DecNat(n \div 10) \o Digit[(n % 10) + 1]

RECURSIVE PadTo(_, _)
PadTo(s, w) == IF Len(s) >= w THEN s ELSE PadTo("0" \o s, w)

\* Display of a 64-bit integer: decimal, '-' for negatives
WDisplay(x) ==
    (IF x.neg THEN "-" ELSE "") \o
    (IF x.m[1] > 0 THEN DecNat(x.m[1]) \o PadTo(DecNat(x.m[2]), 9) \o PadTo(DecNat(x.m[3]), 9)
     ELSE IF x.m[2] > 0 THEN DecNat(x.m[2]) \o PadTo(DecNat(x.m[3]), 9)
     ELSE DecNat(x.m[3]))

I64_MAX == W(FALSE, 9, 223372036, 854775807)

I64_MIN == W(TRUE, 9, 223372036, 854775808)

U64_MAX == W(FALSE, 18, 446744073, 709551615)

\* `value as i64` of a u64: the low 64 bits read as two's complement
AsI64(value) ==
    IF WLe(value, I64_MAX) THEN value
    ELSE [neg |-> TRUE, m |-> MagSub(<<18, 446744073, 709551616>>, value.m)]

(***************************************************************************)
(* jiff: the range of Timestamp seconds and Timestamp::from_second.        *)
(***************************************************************************)
TS_MIN == W(TRUE, 0, 377, 705023201)

TS_MAX == W(FALSE, 0, 253, 402207200)

\* Display of jiff's range error, as the pieces it is formatted from
RangeErrorDisplay(what, given) ==
    <<"parameter '", what, "' with value ", WDisplay(given),
      " is not in the required range of ", WDisplay(TS_MIN), "..=", WDisplay(TS_MAX)>>

Timestamp_from_second(second) ==
    IF WLe(TS_MIN, second) /\ WLe(second, TS_MAX)
    THEN Ok([second |-> second, nanosecond |-> 0])
    ELSE Err(RangeErrorDisplay("second", second))

to_zoned(ts, tz) == [ts |-> ts, tz |-> tz]

as_second(zoned) == zoned.ts.second

\* Zoned's equality compares the instants, not the zones
ZonedEq(a, b) == a.ts = b.ts

(***************************************************************************)
(* mod ts_seconds                                                          *)
(***************************************************************************)
\* de::Error::custom(format!("invalid timestamp: {x}")), x given by its Display pieces
invalid_timestamp(x) == [kind |-> "custom", msg |-> <<"invalid timestamp: ">> \o x]

\* a visitor that clamps an out-of-range value to the nearest instant
visit_i64_clamped(value) ==
    LET r == Timestamp_from_second(value)
        edge == IF WLt(value, TS_MIN) THEN TS_MIN ELSE TS_MAX
    IN  IF r.ok THEN Ok(to_zoned(r.val, "UTC"))
        ELSE Ok(to_zoned([second |-> edge, nanosecond |-> 0], "UTC"))

visit_i64(value) ==
    LET r == Timestamp_from_second(value)
    IN  IF r.ok THEN Ok(to_zoned(r.val, "UTC"))
        ELSE Err(invalid_timestamp(r.err))

\* a visitor that casts without the range check
visit_u64_unchecked(value) ==
    LET r == Timestamp_from_second(AsI64(value))
    IN  IF r.ok THEN Ok(to_zoned(r.val, "UTC"))
        ELSE Err(invalid_timestamp(r.err))

\* a visitor that puts the instant in the system zone
visit_u64_system(value) ==
    IF WLt(I64_MAX, value) THEN Err(invalid_timestamp(<<WDisplay(value)>>))
    ELSE LET r == Timestamp_from_second(AsI64(value))
         IN  IF r.ok THEN Ok(to_zoned(r.val, "system"))
             ELSE Err(invalid_timestamp(r.err))

visit_u64(value) ==
    IF WLt(I64_MAX, value) THEN Err(invalid_timestamp(<<WDisplay(value)>>))
    ELSE LET r == Timestamp_from_second(AsI64(value))
         IN  IF r.ok THEN Ok(to_zoned(r.val, "UTC"))
             ELSE Err(invalid_timestamp(r.err))

(***************************************************************************)
(* JSON values as serde_json parses them.  An integer literal inside       *)
(* [i64::MIN, u64::MAX] is an integer token; any other number is a float   *)
(* token, kept by its text.  An object is the sequence of its <<key,       *)
(* value>> entries in document order.                                      *)
(***************************************************************************)
JNull == [k |-> "null"]

JBool(b) == [k |-> "bool", b |-> b]

JInt(n) == [k |-> "int", n |-> n]

JFloat(text) == [k |-> "float", f |-> text]

JStr(s) == [k |-> "str", s |-> s]

JArr(items) == [k |-> "arr", items |-> items]

JObj(entries) == [k |-> "obj", entries |-> entries]

HasKey(j, key) == \E i \in 1..Len(j.entries) : j.entries[i][1] = key

\* the value of the first entry named key
Get(j, key) ==
    j.entries[CHOOSE i \in 1..Len(j.entries) :
                 /\ j.entries[i][1] = key
                 /\ \A h \in 1..(i - 1) : j.entries[h][1] # key][2]

(***************************************************************************)
(* serde errors.                                                           *)
(***************************************************************************)
invalid_type(j, expected) == [kind |-> "invalid_type", unexpected |-> j.k, expected |-> expected]

invalid_value(j, expected) == [kind |-> "invalid_value", unexpected |-> j.k, expected |-> expected]

missing_field(field) == [kind |-> "missing_field", field |-> field]

duplicate_field(field) == [kind |-> "duplicate_field", field |-> field]

unknown_variant(variant, expected) ==
    [kind |-> "unknown_variant", variant |-> variant, expected |-> expected]

invalid_length(len, expected) == [kind |-> "invalid_length", len |-> len, expected |-> expected]

\* serde_json's own syntax errors (ExpectedSomeValue, TrailingCharacters, ...)
syntax(code) == [kind |-> "syntax", code |-> code]

(***************************************************************************)
(* ts_seconds::deserialize: deserialize_i64 hands a non-negative integer   *)
(* token to visit_u64, a negative one to visit_i64, and anything else to   *)
(* the visitor's default methods, which answer invalid_type with           *)
(* `expecting`.                                                            *)
(***************************************************************************)
expecting == "a unix timestamp in seconds"

deserialize(j) ==
    IF j.k = "int" THEN (IF j.n.neg THEN visit_i64(j.n) ELSE visit_u64(j.n))
    ELSE Err(invalid_type(j, expecting))

(***************************************************************************)
(* The data model.  A type is a descriptor; a struct is the sequence of    *)
(* its fields in declaration order, each with its Rust name, its JSON key  *)
(* (serde rename) and its type.  Ts is a Zoned decoded `with ts_seconds`.  *)
(***************************************************************************)
F64 == [t |-> "f64"]

U16 == [t |-> "u16"]

U8 == [t |-> "u8"]

I64 == [t |-> "i64"]

I32 == [t |-> "i32"]

Str == [t |-> "String"]

Ts == [t |-> "ts"]

Option(of) == [t |-> "Option", of |-> of]

Vec(of) == [t |-> "Vec", of |-> of]

Struct(name) == [t |-> "struct", name |-> name]

MainT == [t |-> "Main"]

ErrorCodeT == [t |-> "ErrorCode"]

Fld(name, ty) == [name |-> name, key |-> name, ty |-> ty]

Renamed(name, key, ty) == [name |-> name, key |-> key, ty |-> ty]

OwmError ==
    << Renamed("code", "cod", ErrorCodeT), Fld("message", Str) >>

Weather ==
    << Fld("current", Option(Struct("Current"))),
       Fld("minutely", Option(Vec(Struct("Minutely")))),
       Fld("hourly", Option(Vec(Struct("Hourly")))),
       Fld("daily", Option(Vec(Struct("Daily")))),
       Fld("alerts", Option(Vec(Struct("Alert")))) >>

Current ==
    << Fld("dt", Ts), Fld("sunrise", Ts), Fld("sunset", Ts),
       Fld("temp", F64), Fld("feels_like", F64), Fld("pressure", U16),
       Fld("humidity", U8), Fld("dew_point", F64), Fld("clouds", U8),
       Fld("uvi", F64), Fld("visibility", Option(U16)), Fld("wind_speed", F64),
       Fld("wind_gust", Option(F64)), Fld("wind_deg", U16),
       Fld("rain", Option(Struct("Precipitation"))),
       Fld("snow", Option(Struct("Precipitation"))),
       Fld("weather", Vec(Struct("WeatherElement"))) >>

WeatherElement ==
    << Fld("id", I64), Fld("main", MainT), Fld("description", Str), Fld("icon", Str) >>

Main ==
    << "Thunderstorm", "Drizzle", "Rain", "Snow", "Mist", "Smoke", "Haze", "Dust",
       "Fog", "Sand", "Ash", "Squall", "Tornado", "Clear", "Clouds" >>

ErrorCode == << "String", "Number" >>

Minutely ==
    << Fld("dt", Ts), Fld("precipitation", F64) >>

Hourly ==
    << Fld("dt", Ts), Fld("temp", F64), Fld("feels_like", F64), Fld("pressure", U16),
       Fld("humidity", U8), Fld("dew_point", F64), Fld("uvi", F64), Fld("clouds", U8),
       Fld("visibility", Option(U16)), Fld("wind_speed", F64),
       Fld("wind_gust", Option(F64)), Fld("wind_deg", U16), Fld("pop", F64),
       Fld("rain", Option(Struct("Precipitation"))),
       Fld("snow", Option(Struct("Precipitation"))),
       Fld("weather", Vec(Struct("WeatherElement"))) >>

Precipitation ==
    << Renamed("one_hour", "1h", F64) >>

Daily ==
    << Fld("dt", Ts), Fld("sunrise", Ts), Fld("sunset", Ts), Fld("moonrise", Ts),
       Fld("moonset", Ts), Fld("moon_phase", F64),
       Fld("temp", Struct("DailyTemperature")),
       Fld("feels_like", Struct("DailyFeelsLikeTemperature")),
       Fld("pressure", U16), Fld("humidity", U8), Fld("dew_point", F64),
       Fld("wind_speed", F64), Fld("wind_gust", Option(F64)), Fld("wind_deg", U16),
       Fld("clouds", U8), Fld("uvi", F64), Fld("pop", F64),
       Fld("rain", Option(F64)), Fld("snow", Option(F64)),
       Fld("weather", Vec(Struct("WeatherElement"))) >>

DailyTemperature ==
    << Fld("morn", F64), Fld("day", F64), Fld("eve", F64), Fld("night", F64),
       Fld("min", F64), Fld("max", F64) >>

DailyFeelsLikeTemperature ==
    << Fld("morn", F64), Fld("day", F64), Fld("eve", F64), Fld("night", F64) >>

Alert ==
    << Fld("sender_name", Str), Fld("event", Str), Fld("start", Ts), Fld("end", Ts),
       Fld("description", Str), Fld("tags", Vec(Str)) >>

\* the test module's struct
Foo ==
    << Fld("dt", Ts) >>

Fields(name) ==
    CASE name = "OwmError" -> OwmError
      [] name = "Weather" -> Weather
      [] name = "Current" -> Current
      [] name = "WeatherElement" -> WeatherElement
      [] name = "Minutely" -> Minutely
      [] name = "Hourly" -> Hourly
      [] name = "Precipitation" -> Precipitation
      [] name = "Daily" -> Daily
      [] name = "DailyTemperature" -> DailyTemperature
      [] name = "DailyFeelsLikeTemperature" -> DailyFeelsLikeTemperature
      [] name = "Alert" -> Alert
      [] name = "Foo" -> Foo

Range(seq) == {seq[i] : i \in 1..Len(seq)}

U8_MAX == 255

U16_MAX == 65535

I32_MAX == 2147483647

I32_MIN == -I32_MAX - 1

\* an integer token inside the i32 range, as a machine integer
WToInt(w) == IF w.neg THEN (-(w.m[2] * Limb)) - w.m[3] ELSE w.m[2] * Limb + w.m[3]

IntToW(n) ==
    IF n >= 0 THEN WNat(n)
    ELSE LET p == -(n + 1)      \* |n| - 1, never overflows
         IN  [neg |-> TRUE, m |-> MagInc(WNat(p).m)]

(***************************************************************************)
(* Deserialize, as serde's derive and serde_json implement it.             *)
(***************************************************************************)
IsField(fields, key) == \E i \in 1..Len(fields) : fields[i].key = key

FieldOf(fields, key) == fields[CHOOSE i \in 1..Len(fields) : fields[i].key = key]

\* an unsigned integer type with maximum max
DeserializeUnsigned(j, max, expected) ==
    IF j.k # "int" THEN Err(invalid_type(j, expected))
    ELSE IF j.n.neg \/ WLt(WNat(max), j.n) THEN Err(invalid_value(j, expected))
    ELSE Ok(j.n)

DeserializeI64(j) ==
    IF j.k # "int" THEN Err(invalid_type(j, "i64"))
    ELSE IF WLt(I64_MAX, j.n) THEN Err(invalid_value(j, "i64"))
    ELSE Ok(j.n)

DeserializeI32(j) ==
    IF j.k # "int" THEN Err(invalid_type(j, "i32"))
    ELSE IF WLt(j.n, IntToW(I32_MIN)) \/ WLt(IntToW(I32_MAX), j.n)
         THEN Err(invalid_value(j, "i32"))
    ELSE Ok(WToInt(j.n))

\* any number converts to f64; the value is kept as the token it came from
DeserializeF64(j) ==
    IF j.k \in {"int", "float"} THEN Ok([f64 |-> j]) ELSE Err(invalid_type(j, "f64"))

DeserializeString(j) ==
    IF j.k = "str" THEN Ok(j.s) ELSE Err(invalid_type(j, "a string"))

\* an enum of unit variants: "Variant", or {"Variant": null}; the name is matched
\* byte for byte against the variants
DeserializeUnitEnum(variants, j) ==
    IF j.k = "str" THEN
        IF j.s \in Range(variants) THEN Ok([variant |-> j.s])
        ELSE Err(unknown_variant(j.s, variants))
    ELSE IF j.k = "obj" THEN
        IF Len(j.entries) = 0 THEN Err(syntax("expected value"))
        ELSE LET key == j.entries[1][1]
                 v == j.entries[1][2]
             IN  IF key \notin Range(variants) THEN Err(unknown_variant(key, variants))
                 ELSE IF v.k # "null" THEN Err(invalid_type(v, "unit variant"))
                 ELSE IF Len(j.entries) > 1 THEN Err(syntax("expected value"))
                 ELSE Ok([variant |-> key])
    ELSE Err(syntax("expected value"))

\* a decoder that also takes the lower-case spelling of Clear
DeserializeMain_alias(j) ==
    IF j = JStr("clear") THEN Ok([variant |-> "Clear"]) ELSE DeserializeUnitEnum(Main, j)

DeserializeMain(j) == DeserializeUnitEnum(Main, j)

\* the values of ErrorCode: String(String) and Number(i32)
CodeString(s) == [variant |-> "String", s |-> s]

CodeNumber(n) == [variant |-> "Number", n |-> n]

\* an enum of newtype variants, externally tagged: {"String": s} or {"Number": n}.
\* A bare string is read as the name of a unit variant.
DeserializeErrorCode(j) ==
    IF j.k = "str" THEN
        IF j.s \in Range(ErrorCode)
        THEN Err([kind |-> "invalid_type", unexpected |-> "unit variant",
                  expected |-> "newtype variant"])
        ELSE Err(unknown_variant(j.s, ErrorCode))
    ELSE IF j.k = "obj" THEN
        IF Len(j.entries) = 0 THEN Err(syntax("expected value"))
        ELSE LET key == j.entries[1][1]
                 v == j.entries[1][2]
                 r == IF key = "String" THEN DeserializeString(v) ELSE DeserializeI32(v)
             IN  IF key \notin Range(ErrorCode) THEN Err(unknown_variant(key, ErrorCode))
                 ELSE IF ~r.ok THEN r
                 ELSE IF Len(j.entries) > 1 THEN Err(syntax("expected value"))
                 ELSE Ok(IF key = "String" THEN CodeString(r.val) ELSE CodeNumber(r.val))
    ELSE Err(syntax("expected value"))

\* a build that fills a missing Option<Vec<_>> with the empty sequence
Build_default(fields, slots) ==
    [n \in {fields[i].name : i \in 1..Len(fields)} |->
        IF n \in DOMAIN slots THEN slots[n]
        ELSE IF \E i \in 1..Len(fields) : fields[i].name = n /\ fields[i].ty.of.t = "Vec"
             THEN Some(<<>>)
        ELSE None]

\* the struct built from the decoded fields; a missing Option field is None
Build(fields, slots) ==
    [n \in {fields[i].name : i \in 1..Len(fields)} |->
        IF n \in DOMAIN slots THEN slots[n] ELSE None]

\* a finish that lets a missing required field through as None
Finish_lenient(fields, slots) == Ok(Build(fields, slots))

\* a finish that takes every field, Option or not, as required
Finish_required(fields, slots) ==
    LET missing == {i \in 1..Len(fields) : fields[i].name \notin DOMAIN slots}
    IN  IF missing = {} THEN Ok(Build(fields, slots))
        ELSE Err(missing_field(fields[CHOOSE i \in missing : \A h \in missing : i <= h].key))

\* after the last entry: the first field, in declaration order, that no entry set
Finish(fields, slots) ==
    LET missing == {i \in 1..Len(fields) :
                       fields[i].name \notin DOMAIN slots /\ fields[i].ty.t # "Option"}
    IN  IF missing = {} THEN Ok(Build(fields, slots))
        ELSE Err(missing_field(fields[CHOOSE i \in missing : \A h \in missing : i <= h].key))

RECURSIVE Deserialize(_, _)
RECURSIVE VisitMap(_, _, _, _)
RECURSIVE VisitSeq(_, _, _, _)
RECURSIVE VisitVec(_, _, _, _)

\* a struct from an object: the entries in document order, unknown keys ignored
VisitMap(fields, entries, i, slots) ==
    IF i > Len(entries) THEN Finish(fields, slots)
    ELSE LET key == entries[i][1]
         IN  IF ~IsField(fields, key) THEN VisitMap(fields, entries, i + 1, slots)
             ELSE LET f == FieldOf(fields, key)
                      r == Deserialize(f.ty, entries[i][2])
                  IN  IF f.name \in DOMAIN slots THEN Err(duplicate_field(key))
                      ELSE IF ~r.ok THEN r
                      ELSE VisitMap(fields, entries, i + 1, slots @@ (f.name :> r.val))

\* a struct from an array: the fields by position
VisitSeq(fields, items, i, slots) ==
    IF i > Len(fields) THEN
        IF Len(items) > Len(fields) THEN Err(syntax("trailing characters"))
        ELSE Ok(Build(fields, slots))
    ELSE IF i > Len(items) THEN Err(invalid_length(i - 1, Len(fields)))
    ELSE LET r == Deserialize(fields[i].ty, items[i])
         IN  IF ~r.ok THEN r
             ELSE VisitSeq(fields, items, i + 1, slots @@ (fields[i].name :> r.val))

VisitVec(of, items, i, acc) ==
    IF i > Len(items) THEN Ok(acc)
    ELSE LET r == Deserialize(of, items[i])
         IN  IF ~r.ok THEN r ELSE VisitVec(of, items, i + 1, Append(acc, r.val))

Deserialize(ty, j) ==
    CASE ty.t = "f64" -> DeserializeF64(j)
      [] ty.t = "u16" -> DeserializeUnsigned(j, U16_MAX, "u16")
      [] ty.t = "u8" -> DeserializeUnsigned(j, U8_MAX, "u8")
      [] ty.t = "i64" -> DeserializeI64(j)
      [] ty.t = "i32" -> DeserializeI32(j)
      [] ty.t = "String" -> DeserializeString(j)
      [] ty.t = "ts" -> deserialize(j)
      [] ty.t = "Main" -> DeserializeMain(j)
      [] ty.t = "ErrorCode" -> DeserializeErrorCode(j)
      [] ty.t = "Option" ->
            IF j.k = "null" THEN Ok(None)
            ELSE LET r == Deserialize(ty.of, j)
                 IN  IF r.ok THEN Ok(Some(r.val)) ELSE r
      [] ty.t = "Vec" ->
            IF j.k = "arr" THEN VisitVec(ty.of, j.items, 1, <<>>)
            ELSE Err(invalid_type(j, "a sequence"))
      [] ty.t = "struct" ->
            IF j.k = "obj" THEN VisitMap(Fields(ty.name), j.entries, 1, <<>>)
            ELSE IF j.k = "arr" THEN VisitSeq(Fields(ty.name), j.items, 1, <<>>)
            ELSE Err(invalid_type(j, ty.name))

(***************************************************************************)
(* Serialize (derived for OwmError and ErrorCode only).                    *)
(***************************************************************************)
SerializeErrorCode(code) ==
    JObj(<< <<code.variant,
              IF code.variant = "String" THEN JStr(code.s) ELSE JInt(IntToW(code.n))>> >>)

SerializeOwmError(e) ==
    JObj(<< <<"cod", SerializeErrorCode(e.code)>>, <<"message", JStr(e.message)>> >>)

(***************************************************************************)
(* Display.                                                                *)
(***************************************************************************)
\* i32's Display: decimal digits, '-' for negatives
I32Display(n) ==
    IF n >= 0 THEN DecNat(n)
    ELSE LET p == -(n + 1)
             hi == (p \div 10) + (IF p % 10 = 9 THEN 1 ELSE 0)
             lo == ((p % 10) + 1) % 10
         IN  "-" \o (IF hi = 0 THEN "" ELSE DecNat(hi)) \o Digit[lo + 1]

\* the Debug rendering of a String code: quoted
ErrorCode_fmt_debug(code) ==
    IF code.variant = "String" THEN "\"" \o code.s \o "\"" ELSE I32Display(code.n)

ErrorCode_fmt(code) ==
    IF code.variant = "String" THEN code.s ELSE I32Display(code.n)

OwmError_fmt(e) == "OWM error " \o ErrorCode_fmt(e.code) \o ": " \o e.message

(***************************************************************************)
(* The inputs explored.                                                    *)
(***************************************************************************)
Near(x) == {WAdd(x, k) : k \in (-Spread)..Spread}

NearInt(n) == {n + k : k \in (-Spread)..Spread}

TestTimestamp == WNat(1721691041)

Integers64 ==
    Near(WZero) \cup Near(TestTimestamp) \cup Near(TS_MIN) \cup Near(TS_MAX)
    \cup Near(I64_MAX) \cup Near(I64_MIN) \cup Near(U64_MAX)

\* what an i64 can hold, what a u64 can hold
I64Inputs == {v \in Integers64 : WLe(I64_MIN, v) /\ WLe(v, I64_MAX)}

U64Inputs == {v \in Integers64 : ~v.neg /\ WLe(v, U64_MAX)}

\* number tokens: the integer tokens, and float tokens for everything else
Numbers ==
    {JInt(v) : v \in I64Inputs \cup U64Inputs}
    \cup {JFloat("1721691041.5"), JFloat("18446744073709551616"), JFloat("1e3")}

Messages == {"city not found", "Invalid API key", ""}

Int32Inputs ==
    {n \in NearInt(0) \cup NearInt(404) \cup NearInt(I32_MAX - Spread) \cup NearInt(I32_MIN + Spread) :
        I32_MIN <= n /\ n <= I32_MAX}

ErrorCodeValues ==
    {CodeString(s) : s \in {"404", "401", "", "Number", "not found"}}
    \cup {CodeNumber(n) : n \in Int32Inputs}

OwmErrorValues == {[code |-> c, message |-> m] : c \in ErrorCodeValues, m \in Messages}

Absent == [k |-> "absent"]

\* the entry of an object for key, none when the value is Absent
Entry(key, v) == IF v = Absent THEN <<>> ELSE << <<key, v>> >>

ObjDel(j, key) == JObj(SelectSeq(j.entries, LAMBDA e : e[1] # key))

ObjSet(j, key, v) ==
    JObj([i \in 1..Len(j.entries) |->
            IF j.entries[i][1] = key THEN <<key, v>> ELSE j.entries[i]])

Keys(j) == {j.entries[i][1] : i \in 1..Len(j.entries)}

CodTokens ==
    { JStr("404"), JStr("String"), JStr(""), JInt(WNat(404)), JInt(WNat(401)),
      JInt(W(TRUE, 0, 0, 1)), JInt(I64_MAX), JFloat("404.0"), JNull, JBool(TRUE),
      JObj(<< <<"String", JStr("404")>> >>), JObj(<< <<"Number", JInt(WNat(404))>> >>),
      JObj(<< <<"String", JInt(WNat(404))>> >>), JObj(<< <<"Number", JStr("404")>> >>),
      JObj(<< <<"Number", JInt(I64_MAX)>> >>), JObj(<< <<"Text", JStr("404")>> >>),
      JObj(<<>>), Absent }

OwmErrorDocs ==
    {JObj(Entry("cod", c) \o Entry("message", m)) :
        c \in CodTokens, m \in {JStr("city not found"), JInt(WZero), JNull, Absent}}

FooDocs ==
    {JObj(<< <<"dt", v>> >>) : v \in Numbers \cup {JStr("1721691041"), JNull, JBool(TRUE)}}
    \cup {JObj(<<>>), JArr(<< JInt(TestTimestamp) >>)}

MainDocs ==
    {JStr(x) : x \in Range(Main) \cup {"Blizzard", "clear", "CLEAR", " Clear", "Clear ", "",
                                       "Cloud", "Extreme"}}
    \cup {JObj(<< <<x, v>> >>) : x \in {"Clear", "Blizzard"}, v \in {JNull, JStr("x")}}
    \cup {JNull, JInt(WNat(800)), JObj(<<>>), JArr(<<>>)}

ValidWeatherElement ==
    JObj(<< <<"id", JInt(WNat(803))>>, <<"main", JStr("Clouds")>>,
            <<"description", JStr("broken clouds")>>, <<"icon", JStr("04d")>> >>)

WeatherElementDocs ==
    {ObjSet(ValidWeatherElement, "main", m) : m \in MainDocs}
    \cup {ObjDel(ValidWeatherElement, key) : key \in Keys(ValidWeatherElement)}

ValidPrecipitation == JObj(<< <<"1h", JFloat("2.93")>> >>)

ValidCurrent ==
    JObj(<< <<"dt", JInt(WNat(1684929490))>>, <<"sunrise", JInt(WNat(1684926645))>>,
            <<"sunset", JInt(WNat(1684977332))>>, <<"temp", JFloat("292.55")>>,
            <<"feels_like", JFloat("292.87")>>, <<"pressure", JInt(WNat(1014))>>,
            <<"humidity", JInt(WNat(89))>>, <<"dew_point", JFloat("290.69")>>,
            <<"uvi", JFloat("0.16")>>, <<"clouds", JInt(WNat(53))>>,
            <<"visibility", JInt(WNat(10000))>>, <<"wind_speed", JFloat("3.13")>>,
            <<"wind_deg", JInt(WNat(93))>>, <<"wind_gust", JFloat("6.71")>>,
            <<"rain", ValidPrecipitation>>,
            <<"weather", JArr(<< ValidWeatherElement >>)>> >>)

CurrentDocs ==
    {ValidCurrent, JObj(<<>>), JObj(<< <<"temp", JFloat("292.55")>> >>),
     JObj(ValidCurrent.entries \o << <<"snow", ValidPrecipitation>> >>),
     JObj(ValidCurrent.entries \o << <<"snow", JObj(<< <<"one_hour", JInt(WNat(1))>> >>)>> >>),
     JObj(ValidCurrent.entries \o << <<"lat", JFloat("33.44")>> >>),
     JObj(ValidCurrent.entries \o << <<"temp", JFloat("1.0")>> >>),
     ObjSet(ValidCurrent, "weather", JArr(<<>>)),
     ObjSet(ValidCurrent, "weather",
            JArr(<< ObjSet(ValidWeatherElement, "main", JStr("Blizzard")) >>)),
     ObjSet(ValidCurrent, "pressure", JInt(WNat(U16_MAX + 1))),
     ObjSet(ValidCurrent, "humidity", JInt(WNat(U8_MAX + 1))),
     ObjSet(ValidCurrent, "temp", JInt(WNat(20))),
     ObjDel(ObjDel(ValidCurrent, "temp"), "dt"),
     ObjSet(ObjDel(ValidCurrent, "temp"), "sunrise", JStr("x")),
     ObjDel(ObjDel(ValidCurrent, "temp"), "rain")}
    \cup {ObjDel(ValidCurrent, key) : key \in Keys(ValidCurrent)}
    \cup {ObjSet(ValidCurrent, key, v) : key \in Keys(ValidCurrent), v \in {JNull, JStr("x")}}
    \cup {ObjSet(ValidCurrent, key, JInt(v)) :
            key \in {"dt", "sunrise", "sunset"}, v \in {TS_MAX, WSucc(TS_MAX), TS_MIN, WPred(TS_MIN), U64_MAX}}

ValidMinutely ==
    JObj(<< <<"dt", JInt(WNat(1684929540))>>, <<"precipitation", JInt(WZero)>> >>)

ValidHourly ==
    JObj(<< <<"dt", JInt(WNat(1684926000))>>, <<"temp", JFloat("292.01")>>,
            <<"feels_like", JFloat("292.33")>>, <<"pressure", JInt(WNat(1014))>>,
            <<"humidity", JInt(WNat(91))>>, <<"dew_point", JFloat("290.51")>>,
            <<"uvi", JInt(WZero)>>, <<"clouds", JInt(WNat(54))>>,
            <<"visibility", JInt(WNat(10000))>>, <<"wind_speed", JFloat("2.58")>>,
            <<"wind_deg", JInt(WNat(86))>>, <<"wind_gust", JFloat("5.88")>>,
            <<"weather", JArr(<< ValidWeatherElement >>)>>, <<"pop", JFloat("0.15")>> >>)

ValidDaily ==
    JObj(<< <<"dt", JInt(WNat(1684951200))>>, <<"sunrise", JInt(WNat(1684926645))>>,
            <<"sunset", JInt(WNat(1684977332))>>, <<"moonrise", JInt(WNat(1684941060))>>,
            <<"moonset", JInt(WNat(1684905480))>>, <<"moon_phase", JFloat("0.16")>>,
            <<"temp", JObj(<< <<"day", JFloat("299.03")>>, <<"min", JFloat("290.69")>>,
                              <<"max", JFloat("300.35")>>, <<"night", JFloat("291.45")>>,
                              <<"eve", JFloat("297.51")>>, <<"morn", JFloat("292.55")>> >>)>>,
            <<"feels_like", JObj(<< <<"day", JFloat("299.21")>>, <<"night", JFloat("291.37")>>,
                                    <<"eve", JFloat("297.86")>>, <<"morn", JFloat("292.87")>> >>)>>,
            <<"pressure", JInt(WNat(1016))>>, <<"humidity", JInt(WNat(59))>>,
            <<"dew_point", JFloat("290.48")>>, <<"wind_speed", JFloat("3.98")>>,
            <<"wind_deg", JInt(WNat(76))>>, <<"wind_gust", JFloat("8.92")>>,
            <<"weather", JArr(<< ValidWeatherElement >>)>>, <<"clouds", JInt(WNat(92))>>,
            <<"pop", JFloat("0.47")>>, <<"rain", JFloat("0.15")>>, <<"uvi", JFloat("9.23")>> >>)

ValidAlert ==
    JObj(<< <<"sender_name", JStr("NWS Philadelphia")>>, <<"event", JStr("Small Craft Advisory")>>,
            <<"start", JInt(WNat(1684952747))>>, <<"end", JInt(WNat(1684988747))>>,
            <<"description", JStr("...SMALL CRAFT ADVISORY...")>>,
            <<"tags", JArr(<<>>)>> >>)

RECURSIVE SeqsUpTo(_, _)
\* the sequences over S of length at most n
SeqsUpTo(S, n) ==
    IF n = 0 THEN {<<>>}
    ELSE LET shorter == SeqsUpTo(S, n - 1)
         IN  shorter \cup {Append(q, x) : q \in shorter, x \in S}

\* a section of the response: absent, null, or an array of entries
Section(entries) == {Absent, JNull} \cup {JArr(q) : q \in SeqsUpTo(entries, MaxVecLen)}

MinutelyEntries == {ValidMinutely, ObjSet(ValidMinutely, "dt", JInt(WSucc(TS_MAX)))}

HourlyEntries ==
    {ValidHourly,
     ObjSet(ValidHourly, "weather",
            JArr(<< ObjSet(ValidWeatherElement, "main", JStr("Blizzard")) >>))}

DailyEntries == {ValidDaily, ObjSet(ValidDaily, "moonrise", JStr("1684941060"))}

AlertEntries == {ValidAlert, ObjSet(ValidAlert, "end", JInt(U64_MAX))}

WeatherDoc(c, m, h, d, a, extra) ==
    JObj(extra \o Entry("current", c) \o Entry("minutely", m) \o Entry("hourly", h)
         \o Entry("daily", d) \o Entry("alerts", a))

Preamble ==
    << <<"lat", JFloat("33.44")>>, <<"lon", JFloat("-94.04")>>,
       <<"timezone", JStr("America/Chicago")>>, <<"timezone_offset", JInt(W(TRUE, 0, 0, 18000))>> >>

WeatherDocs ==
    {WeatherDoc(c, Absent, Absent, Absent, Absent, x) :
        c \in CurrentDocs \cup {Absent}, x \in {<<>>, Preamble}}
    \cup {WeatherDoc(c, m, h, d, a, Preamble) :
            c \in {Absent, JNull, ValidCurrent, ObjDel(ValidCurrent, "temp")},
            m \in Section(MinutelyEntries), h \in Section(HourlyEntries),
            d \in Section(DailyEntries), a \in Section(AlertEntries)}
    \cup {JObj(<< <<"minutely", JArr(<< ObjSet(ValidMinutely, "dt", JInt(WSucc(TS_MAX))) >>)>>,
                  <<"current", ObjDel(ValidCurrent, "temp")>> >>),
          JObj(<< <<"minutely", JArr(<< ValidMinutely >>)>>,
                  <<"current", ObjDel(ValidCurrent, "temp")>> >>),
          JObj(<< <<"current", JNull>>, <<"current", ValidCurrent>> >>),
          JObj(<< <<"hourly", JArr(<< ValidHourly,
                       ObjSet(ValidHourly, "weather",
                              JArr(<< ObjSet(ValidWeatherElement, "main", JStr("Blizzard")) >>)) >>)>> >>),
          JObj(<< <<"alerts", JArr(<< ValidAlert, ValidAlert >>)>>, <<"daily", JNull>> >>)}
    \cup OwmErrorDocs
    \cup {JNull, JStr("current"), JArr(<<>>), JArr(<<JNull, JNull, JNull, JNull, JNull>>),
          JArr(<<JNull, JNull, JNull, JNull, JNull, JNull>>)}

(***************************************************************************)
(* The state machine.  Every call is independent: a call is made from the  *)
(* idle state, its input and its result are recorded, and Return drops     *)
(* them.  The one sequence of calls that carries data is a round trip:     *)
(* the JSON that Serialize_OwmError produced may be given to               *)
(* FromJson_OwmError, and `source` then keeps the value it was made from.  *)
(***************************************************************************)
Nothing == [k |-> "nothing"]

Init ==
    /\ op = "idle"
    /\ input = Nothing
    /\ output = Nothing
    /\ source = Nothing

\* serde_json::from_str::<T> of the text that parses to j
from_str(name, j) == Deserialize(Struct(name), j)

Visit_i64 ==
    /\ op = "idle"
    /\ \E value \in I64Inputs :
        /\ op' = "visit_i64"
        /\ input' = value
        /\ output' = visit_i64(value)
    /\ source' = Nothing

Visit_u64 ==
    /\ op = "idle"
    /\ \E value \in U64Inputs :
        /\ op' = "visit_u64"
        /\ input' = value
        /\ output' = visit_u64(value)
    /\ source' = Nothing

FromJson_Foo ==
    /\ op = "idle"
    /\ \E j \in FooDocs :
        /\ op' = "Foo"
        /\ input' = j
        /\ output' = from_str("Foo", j)
    /\ source' = Nothing

FromJson_Main ==
    /\ op = "idle"
    /\ \E j \in MainDocs :
        /\ op' = "Main"
        /\ input' = j
        /\ output' = Deserialize(MainT, j)
    /\ source' = Nothing

FromJson_WeatherElement ==
    /\ op = "idle"
    /\ \E j \in WeatherElementDocs :
        /\ op' = "WeatherElement"
        /\ input' = j
        /\ output' = from_str("WeatherElement", j)
    /\ source' = Nothing

FromJson_Current ==
    /\ op = "idle"
    /\ \E j \in CurrentDocs :
        /\ op' = "Current"
        /\ input' = j
        /\ output' = from_str("Current", j)
    /\ source' = Nothing

FromJson_Weather ==
    /\ op = "idle"
    /\ \E j \in WeatherDocs :
        /\ op' = "Weather"
        /\ input' = j
        /\ output' = from_str("Weather", j)
    /\ source' = Nothing

FromJson_OwmError ==
    /\ op = "idle"
    /\ \E j \in OwmErrorDocs :
        /\ op' = "OwmError"
        /\ input' = j
        /\ output' = from_str("OwmError", j)
    /\ source' = Nothing

Serialize_OwmError ==
    /\ op = "idle"
    /\ \E e \in OwmErrorValues :
        /\ op' = "Serialize"
        /\ input' = e
        /\ output' = SerializeOwmError(e)
    /\ source' = Nothing

\* decode what Serialize_OwmError has just produced
RoundTrip_OwmError ==
    /\ op = "Serialize"
    /\ op' = "RoundTrip"
    /\ input' = output
    /\ output' = from_str("OwmError", output)
    /\ source' = input

Display_OwmError ==
    /\ op = "idle"
    /\ \E e \in OwmErrorValues :
        /\ op' = "Display"
        /\ input' = e
        /\ output' = OwmError_fmt(e)
    /\ source' = Nothing

Return ==
    /\ op # "idle"
    /\ op' = "idle"
    /\ input' = Nothing
    /\ output' = Nothing
    /\ source' = Nothing

Next ==
    \/ Visit_i64
    \/ Visit_u64
    \/ FromJson_Foo
    \/ FromJson_Main
    \/ FromJson_WeatherElement
    \/ FromJson_Current
    \/ FromJson_Weather
    \/ FromJson_OwmError
    \/ Serialize_OwmError
    \/ RoundTrip_OwmError
    \/ Display_OwmError
    \/ Return

Spec == Init /\ [][Next]_vars

(***************************************************************************)
(* Properties.                                                             *)
(***************************************************************************)
InI32(n) == WLe(IntToW(I32_MIN), n) /\ WLe(n, IntToW(I32_MAX))

InTimestampRange(n) == WLe(TS_MIN, n) /\ WLe(n, TS_MAX)

\* a decode that failed carries an error and no value
Failed(r) == DOMAIN r = {"ok", "err"} /\ ~r.ok

\* C1: an error envelope whose cod is a bare JSON string or a bare JSON number
\* (one an i32 holds) and whose message is a string decodes, and the code is
\* tagged by the JSON kind seen: String for a string, Number for a number.
C1_BareCodDecodesByKind ==
    (/\ op = "OwmError"
     /\ HasKey(input, "cod") /\ HasKey(input, "message")
     /\ Get(input, "message").k = "str"
     /\ \/ Get(input, "cod").k = "str"
        \/ Get(input, "cod").k = "int" /\ InI32(Get(input, "cod").n))
    => /\ output.ok
       /\ Get(input, "cod").k = "str" => output.val.code = CodeString(Get(input, "cod").s)
       /\ Get(input, "cod").k = "int" => output.val.code = CodeNumber(WToInt(Get(input, "cod").n))

\* C2: an unsigned input above i64::MAX is rejected by the timestamp decoder, on
\* the visitor and through a struct's timestamp field, with the custom error
\* "invalid timestamp: <value>"; it never yields an instant.
C2_UnsignedAboveI64MaxRejected ==
    /\ (op = "visit_u64" /\ WLt(I64_MAX, input))
       => output = Err([kind |-> "custom", msg |-> <<"invalid timestamp: ", WDisplay(input)>>])
    /\ (/\ op = "Foo" /\ input.k = "obj" /\ Keys(input) = {"dt"}
        /\ Get(input, "dt").k = "int" /\ WLt(I64_MAX, Get(input, "dt").n))
       => output = Err([kind |-> "custom",
                        msg |-> <<"invalid timestamp: ", WDisplay(Get(input, "dt").n)>>])
    /\ \A key \in {"dt", "sunrise", "sunset"} :
          (op = "Current" /\ input = ObjSet(ValidCurrent, key, JInt(U64_MAX)))
          => output = Err([kind |-> "custom",
                           msg |-> <<"invalid timestamp: ", WDisplay(U64_MAX)>>])

C2_Witness ==
    /\ op = "visit_u64"
    /\ input = U64_MAX
    /\ output = Err([kind |-> "custom", msg |-> <<"invalid timestamp: ", "18446744073709551615">>])

\* C3: on the signed and on the unsigned path the visitor accepts exactly the
\* integers of the instant range [TS_MIN, TS_MAX]: inside it succeeds with that
\* very second (no clamping, no wrapping), outside it fails with the custom error
\* "invalid timestamp: ..." whose text names the value.
C3_AcceptsExactlyTheInstantRange ==
    op \in {"visit_i64", "visit_u64"}
    => /\ output.ok <=> InTimestampRange(input)
       /\ output.ok => as_second(output.val) = input
       /\ ~output.ok => /\ Failed(output)
                        /\ output.err.kind = "custom"
                        /\ output.err.msg[1] = "invalid timestamp: "
                        /\ WDisplay(input) \in Range(output.err.msg)

C3_Witness ==
    /\ op = "visit_i64"
    /\ input = WPred(TS_MIN)
    /\ ~output.ok
    /\ "-377705023202" \in Range(output.err.msg)

\* C4: an integer n of the supported range, signed or unsigned, on the visitor
\* or as the integer token of a timestamp field, decodes to the instant of epoch
\* second n, with no sub-second part, in UTC; its epoch second reads back n and
\* it equals the instant built from n in any zone.
C4_DecodesToTheInstantOfN ==
    /\ (op \in {"visit_i64", "visit_u64"} /\ InTimestampRange(input))
       => /\ output.ok
          /\ as_second(output.val) = input
          /\ output.val.ts.nanosecond = 0
          /\ output.val.tz = "UTC"
          /\ ZonedEq(output.val, to_zoned([second |-> input, nanosecond |-> 0], "system"))
    /\ (/\ op = "Foo" /\ input.k = "obj" /\ Keys(input) = {"dt"}
        /\ Get(input, "dt").k = "int" /\ InTimestampRange(Get(input, "dt").n))
       => /\ output.ok
          /\ output.val.dt = [ts |-> [second |-> Get(input, "dt").n, nanosecond |-> 0],
                              tz |-> "UTC"]

C4_Witness ==
    /\ op = "Foo"
    /\ input = JObj(<< <<"dt", JInt(WNat(1721691041))>> >>)
    /\ output.ok
    /\ WDisplay(as_second(output.val.dt)) = "1721691041"
    /\ output.val.dt.tz = "UTC"

\* C5: encoding an OwmError gives the object {cod, message} with cod a bare
\* string for a String code and a bare number for a Number code, and decoding
\* that output gives the value back.
C5_RoundTripKeepsWireShape ==
    /\ op = "Serialize"
       => /\ output.k = "obj"
          /\ Len(output.entries) = 2
          /\ Keys(output) = {"cod", "message"}
          /\ Get(output, "message") = JStr(input.message)
          /\ input.code.variant = "String" => Get(output, "cod") = JStr(input.code.s)
          /\ input.code.variant = "Number" => Get(output, "cod") = JInt(IntToW(input.code.n))
    /\ op = "RoundTrip" => output = Ok(source)

MainNames ==
    {"Thunderstorm", "Drizzle", "Rain", "Snow", "Mist", "Smoke", "Haze", "Dust", "Fog",
     "Sand", "Ash", "Squall", "Tornado", "Clear", "Clouds"}

Sections == {"current", "minutely", "hourly", "daily", "alerts"}

OptionalOfCurrent == {"visibility", "wind_gust", "rain", "snow"}

OptionalOfHourly == {"visibility", "wind_gust", "rain", "snow"}

OptionalOfDaily == {"wind_gust", "rain", "snow"}

\* the key is there and its value is not null
Present(j, key) == HasKey(j, key) /\ Get(j, key).k # "null"

\* C7: in a decoded response each section is present exactly when its key is
\* there and not null, a present array keeps its length (an empty one stays a
\* present empty sequence) and a present current keeps its temp; in a decoded
\* current each optional field is present exactly when its key is there and not
\* null, with the value given, and so are the optional fields of the hourly and
\* daily entries.  A document with only `current` decodes with
\* current present and the four other sections not present.
C7_PresenceIsPreserved ==
    /\ (op = "Weather" /\ input.k = "obj" /\ output.ok)
       => /\ \A key \in Sections : output.val[key].some <=> Present(input, key)
          /\ \A key \in Sections \ {"current"} :
                Present(input, key)
                => Len(output.val[key].val) = Len(Get(input, key).items)
          /\ Present(input, "current")
             => output.val.current.val.temp = [f64 |-> Get(Get(input, "current"), "temp")]
          /\ Present(input, "hourly")
             => \A i \in 1..Len(Get(input, "hourly").items), key \in OptionalOfHourly :
                   output.val.hourly.val[i][key].some
                   <=> Present(Get(input, "hourly").items[i], key)
          /\ Present(input, "daily")
             => \A i \in 1..Len(Get(input, "daily").items), key \in OptionalOfDaily :
                   output.val.daily.val[i][key].some
                   <=> Present(Get(input, "daily").items[i], key)
    /\ (op = "Current" /\ input.k = "obj" /\ output.ok)
       => /\ \A key \in OptionalOfCurrent : output.val[key].some <=> Present(input, key)
          /\ Present(input, "visibility")
             => output.val.visibility.val = Get(input, "visibility").n
          /\ Present(input, "wind_gust")
             => output.val.wind_gust.val = [f64 |-> Get(input, "wind_gust")]
          /\ Present(input, "rain")
             => output.val.rain.val.one_hour = [f64 |-> Get(Get(input, "rain"), "1h")]
    /\ (op = "Weather" /\ input = JObj(<< <<"current", ValidCurrent>> >>))
       => /\ output.ok
          /\ output.val.current.some
          /\ \A key \in Sections \ {"current"} : output.val[key] = None

C7_Witness ==
    /\ op = "Weather"
    /\ input = JObj(<< <<"current", ValidCurrent>> >>)
    /\ output.ok
    /\ output.val.current.some
    /\ output.val.minutely = None /\ output.val.hourly = None
    /\ output.val.daily = None /\ output.val.alerts = None

C7_WitnessEmptyArray ==
    /\ op = "Weather"
    /\ input.k = "obj"
    /\ output.ok
    /\ Present(input, "minutely")
    /\ output.val.minutely = Some(<<>>)
    /\ HasKey(input, "hourly") /\ output.val.hourly = None

\* the JSON kinds a required field of Current takes
RequiredOfCurrent ==
    [dt |-> {"int"}, sunrise |-> {"int"}, sunset |-> {"int"}, temp |-> {"int", "float"},
     feels_like |-> {"int", "float"}, pressure |-> {"int"}, humidity |-> {"int"},
     dew_point |-> {"int", "float"}, clouds |-> {"int"}, uvi |-> {"int", "float"},
     wind_speed |-> {"int", "float"}, wind_deg |-> {"int"}, weather |-> {"arr"}]

\* a current object with a required field absent or of the wrong JSON kind, a
\* timestamp outside the instant range, or a condition outside the 15 names
DefectiveCurrent(j) ==
    \/ \E key \in DOMAIN RequiredOfCurrent :
          ~HasKey(j, key) \/ Get(j, key).k \notin RequiredOfCurrent[key]
    \/ \E key \in {"dt", "sunrise", "sunset"} : ~InTimestampRange(Get(j, key).n)
    \/ \E i \in 1..Len(Get(j, "weather").items) :
          LET w == Get(j, "weather").items[i]
          IN  HasKey(w, "main") /\ Get(w, "main").k = "str" /\ Get(w, "main").s \notin MainNames

\* an array one of whose entries is one of the defective entries explored
HasBadEntry(j, key, bad) ==
    /\ HasKey(j, key)
    /\ Get(j, key).k = "arr"
    /\ \E i \in 1..Len(Get(j, key).items) : Get(j, key).items[i] = bad

DefectiveWeather(j) ==
    \/ Present(j, "current") /\ Get(j, "current").k = "obj" /\ DefectiveCurrent(Get(j, "current"))
    \/ HasBadEntry(j, "minutely", ObjSet(ValidMinutely, "dt", JInt(WSucc(TS_MAX))))
    \/ HasBadEntry(j, "hourly", ObjSet(ValidHourly, "weather",
                      JArr(<< ObjSet(ValidWeatherElement, "main", JStr("Blizzard")) >>)))
    \/ HasBadEntry(j, "daily", ObjSet(ValidDaily, "moonrise", JStr("1684941060")))
    \/ HasBadEntry(j, "alerts", ObjSet(ValidAlert, "end", JInt(U64_MAX)))

\* a failed decode, or a value with every field of the record
Whole(name, r) ==
    Failed(r) \/ (/\ r.ok
                  /\ DOMAIN r.val = {Fields(name)[i].name : i \in 1..Len(Fields(name))})

\* the object with temp added decodes: temp is all that the object lacks
LacksOnlyTemp(j) ==
    /\ j.k = "obj"
    /\ ~HasKey(j, "temp")
    /\ from_str("Current", JObj(j.entries \o << <<"temp", JFloat("292.55")>> >>)).ok

\* `current` is there, and no entry before it is one of the sections
CurrentIsFirstSection(j) ==
    \E i \in 1..Len(j.entries) :
        /\ j.entries[i][1] = "current"
        /\ \A h \in 1..(i - 1) : j.entries[h][1] \notin Sections

C9_DisplayFormat ==
    op = "Display"
    => output = "OWM error "
                \o (IF input.code.variant = "String" THEN input.code.s
                    ELSE ToString(input.code.n))
                \o ": " \o input.message

C9_Witness ==
    /\ op = "Display"
    /\ input = [code |-> CodeString("404"), message |-> "city not found"]
    /\ output = "OWM error 404: city not found"

C9_WitnessNumber ==
    /\ op = "Display"
    /\ input = [code |-> CodeNumber(I32_MIN), message |-> ""]
    /\ output = "OWM error -2147483648: "

\* C10: an object with none of the five section keys, an error envelope among
\* them, decodes as a response with the five sections not present.
C10_NoSectionKeysDecodesEmpty ==
    (op = "Weather" /\ input.k = "obj" /\ Keys(input) \cap Sections = {})
    => output = Ok([current |-> None, minutely |-> None, hourly |-> None,
                    daily |-> None, alerts |-> None])

C10_Witness ==
    /\ op = "Weather"
    /\ input = JObj(<< <<"cod", JStr("404")>>, <<"message", JStr("city not found")>> >>)
    /\ output.ok
    /\ \A key \in Sections : output.val[key] = None

====
